---- MODULE Spec2Model ----
(***************************************************************************)
(* "Break the 3C Cycle" daily journal: the entry store (load, save, clear  *)
(* over the Storage wrapper) and the views derived from the collection.    *)
(*                                                                         *)
(* Two drafts of App live in the sources: the manual-save draft (Save and  *)
(* Clear buttons, todayKey recomputed from the wall clock on each render)  *)
(* and the auto-save draft (every edit saves, todayKey is state changed by *)
(* the calendar).  `version` selects the draft for a whole behaviour.      *)
(***************************************************************************)
EXTENDS Integers, Sequences, FiniteSets, TLC

VARIABLES
    platform,     \* what the module finds when it is loaded: localStorage, AsyncStorage
    version,      \* "manual" | "auto": which draft of App is running
    backend,      \* "web" | "native" | "memory": the Storage chosen at module load
    store,        \* the item stored under STORAGE_KEY (a text, or NoItem)
    loading,      \* App state `loading`
    entries,      \* App state `entries`
    current,      \* App state `current`
    todayKey,     \* the date key of the last render
    selected,     \* the day last pressed in the calendar (bookkeeping for the properties)
    loadOp,       \* the call of loadEntries made by the mount effect
    ops,          \* saveCurrent / clear calls suspended at `await Storage.setItem`
    dialog,       \* the "Clear today's entry?" alert and the closure of its buttons
    alert,        \* the last notification shown by Alert.alert
    warnings,     \* the messages passed to console.warn so far
    uncaught,     \* TRUE once an exception left a handler uncaught
    last,         \* the operation that completed last (bookkeeping for the properties)
    nOps,         \* number of user operations so far
    initialStore, \* the item stored when the process started (never changes)
    disturbed,    \* TRUE once a write failed or two store operations overlapped
    view          \* what the history list and the charts last rendered, and the
                  \* `selectedDate` of the history calendar

vars == <<platform, version, selected, backend, store, loading, entries, current, todayKey, loadOp,
          ops, dialog, alert, warnings, uncaught, last, nOps, initialStore,
          disturbed, view>>

-----------------------------------------------------------------------------
(* Bounds *)

MaxOps == 2           \* user operations (edits, presses, date changes) per behaviour
MaxInFlight == 2      \* saves/clears suspended at the same time
MaxHistKeys == 8      \* date keys of the collections given to the history list
MaxWindow == 2        \* window sizes n given to the chart series: 0..MaxWindow

-----------------------------------------------------------------------------
(* JavaScript values.  A value is a record tagged with what `typeof` and   *)
(* Array.isArray tell about it.  An object that is used as an entry has    *)
(* its properties as a function from names; a collection keeps its        *)
(* properties as a sequence of key/value pairs in insertion order, which  *)
(* is the order Object.keys and JSON.stringify follow.                    *)

Undefined == [t |-> "undefined"]
Null == [t |-> "null"]
Str(s) == [t |-> "string", s |-> s]
Bool(b) == [t |-> "boolean", b |-> b]
Num(n) == [t |-> "number", n |-> n]
Arr(items) == [t |-> "array", items |-> items]
Obj(props) == [t |-> "object", props |-> props]
Coll(pairs) == [t |-> "collection", pairs |-> pairs]
\* an index of an array that was never assigned
Hole == [t |-> "hole"]

\* typeof v === 'object'
TypeofObject(v) == v.t \in {"object", "collection", "array", "null"}

\* the truthiness of v (what `v && ...` and filter(Boolean) test)
Truthy(v) ==
    CASE v.t = "undefined" -> FALSE
      [] v.t = "null" -> FALSE
      [] v.t = "string" -> v.s # ""
      [] v.t = "boolean" -> v.b
      [] v.t = "number" -> v.n # 0
      [] OTHER -> TRUE

-----------------------------------------------------------------------------
(* Key strings are sequences of character codes, so that they can be       *)
(* compared the way localeCompare compares them.                           *)

Hyphen == 45
Digit(d) == 48 + d

Pad2(n) == <<Digit(n \div 10), Digit(n % 10)>>

Year4(y) == <<Digit(y \div 1000), Digit((y \div 100) % 10), Digit((y \div 10) % 10), Digit(y % 10)>>

\* getTodayKey applied to the local date [y, m, d]
getTodayKey(date) == Year4(date.y) \o <<Hyphen>> \o Pad2(date.m) \o <<Hyphen>> \o Pad2(date.d)

\* String(i) for an array index
IndexKey(i) == IF i < 10 THEN <<Digit(i)>> ELSE Pad2(i)

Min(a, b) == IF a < b THEN a ELSE b

RECURSIVE CompareFrom(_, _, _)
CompareFrom(a, b, i) ==
    IF i > Len(a) /\ i > Len(b) THEN 0
    ELSE IF i > Len(a) THEN -1
    ELSE IF i > Len(b) THEN 1
    ELSE IF a[i] < b[i] THEN -1
    ELSE IF a[i] > b[i] THEN 1
    ELSE CompareFrom(a, b, i + 1)

\* a.localeCompare(b) on strings of digits and hyphens
localeCompare(a, b) == CompareFrom(a, b, 1)

-----------------------------------------------------------------------------
(* Collections *)

EmptyColl == Coll(<<>>)

Pair(k, v) == [key |-> k, value |-> v]

\* the own enumerable properties of v as key/value pairs, in enumeration order
\* (what Object.keys lists and what {...v} copies); array holes are skipped
RECURSIVE ArrayPairs(_, _)
ArrayPairs(items, i) ==
    IF i > Len(items) THEN <<>>
    ELSE IF items[i].t = "hole" THEN ArrayPairs(items, i + 1)
    ELSE <<[key |-> IndexKey(i - 1), value |-> items[i]]>> \o ArrayPairs(items, i + 1)

OwnPairs(v) ==
    CASE v.t = "collection" -> v.pairs
      [] v.t = "array" -> ArrayPairs(v.items, 1)
      [] OTHER -> <<>>

\* Object.keys(v)
ObjectKeys(v) == [i \in 1..Len(OwnPairs(v)) |-> OwnPairs(v)[i].key]

KeySet(v) == {OwnPairs(v)[i].key : i \in 1..Len(OwnPairs(v))}

HasKey(v, k) == k \in KeySet(v)

\* v[k]
GetKey(v, k) ==
    IF HasKey(v, k)
    THEN LET i == CHOOSE j \in 1..Len(OwnPairs(v)) : OwnPairs(v)[j].key = k
         IN OwnPairs(v)[i].value
    ELSE Undefined

\* the spread written as a push of the new pair
SpreadSet_Appends(v, k, e) == Coll(Append(OwnPairs(v), [key |-> k, value |-> e]))

\* { ...v, [k]: e }
SpreadSet(v, k, e) ==
    LET ps == OwnPairs(v)
    IN IF HasKey(v, k)
       THEN Coll([i \in 1..Len(ps) |-> IF ps[i].key = k THEN [key |-> k, value |-> e] ELSE ps[i]])
       ELSE Coll(Append(ps, [key |-> k, value |-> e]))

\* the copy without the delete
SpreadDelete_KeepsKey(v, k) == Coll(OwnPairs(v))

\* const u = { ...v }; delete u[k]
SpreadDelete(v, k) ==
    LET ps == OwnPairs(v)
    IN Coll(SelectSeq(ps, LAMBDA p : p.key # k))

-----------------------------------------------------------------------------
(* JSON.  A stored text is the empty string, a text that is not JSON, or   *)
(* the JSON text of a document; NoItem stands for "nothing stored".        *)

NoItem == [k |-> "none"]
EmptyText == [k |-> "empty"]
InvalidText == [k |-> "invalid"]
JsonText(doc) == [k |-> "json", doc |-> doc]

\* the document JSON.stringify writes for v: a property whose value is
\* undefined is left out, an undefined item or a hole of an array becomes null
RECURSIVE ToJSON(_)
ToJSON(v) ==
    CASE v.t = "array" ->
            Arr([i \in 1..Len(v.items) |->
                    IF v.items[i].t \in {"undefined", "hole"} THEN Null ELSE ToJSON(v.items[i])])
      [] v.t = "object" ->
            Obj([n \in {m \in DOMAIN v.props : v.props[m].t # "undefined"} |-> ToJSON(v.props[n])])
      [] v.t = "collection" ->
            LET kept == SelectSeq(v.pairs, LAMBDA p : p.value.t # "undefined")
            IN Coll([i \in 1..Len(kept) |-> [key |-> kept[i].key, value |-> ToJSON(kept[i].value)]])
      [] OTHER -> v

JSONstringify(v) == JsonText(ToJSON(v))

\* JSON.parse(raw): the value, or a SyntaxError
JSONparse(raw) ==
    IF raw.k = "json" THEN [ok |-> TRUE, value |-> raw.doc] ELSE [ok |-> FALSE]

\* the truthiness of what getItem returned (null and "" are falsy)
RawTruthy(raw) == raw.k \notin {"none", "empty"}

-----------------------------------------------------------------------------
(* The Storage wrapper.  `fails` says whether the underlying store throws  *)
(* (localStorage) or rejects (AsyncStorage) on this call.                  *)

Backends == {"web", "native", "memory"}

\* Storage.getItem(STORAGE_KEY): what the awaited promise settles to
StorageGetItem(b, item, fails) ==
    CASE b = "web" ->
            IF fails THEN [ok |-> TRUE, raw |-> NoItem, warned |-> {"localStorage.getItem failed"}]
            ELSE [ok |-> TRUE, raw |-> item, warned |-> {}]
      [] b = "native" ->
            IF fails THEN [ok |-> FALSE, raw |-> NoItem, warned |-> {}]
            ELSE [ok |-> TRUE, raw |-> item, warned |-> {}]
      [] OTHER -> [ok |-> TRUE, raw |-> item, warned |-> {}]

\* a setItem that reports success without storing the text
StorageSetItem_NotStored(b, item, text, fails) ==
    [ok |-> b # "native" \/ ~fails, item |-> item,
     warned |-> IF b = "web" /\ fails THEN {"localStorage.setItem failed"} ELSE {}]

\* Storage.setItem(STORAGE_KEY, text): the item afterwards and what the
\* awaited promise settles to
StorageSetItem(b, item, text, fails) ==
    CASE b = "web" ->
            IF fails THEN [ok |-> TRUE, item |-> item, warned |-> {"localStorage.setItem failed"}]
            ELSE [ok |-> TRUE, item |-> text, warned |-> {}]
      [] b = "native" ->
            IF fails THEN [ok |-> FALSE, item |-> item, warned |-> {}]
            ELSE [ok |-> TRUE, item |-> text, warned |-> {}]
      [] OTHER -> [ok |-> TRUE, item |-> text, warned |-> {}]

\* whether the underlying store of backend b can fail at all
CanFail(b) == b \in {"web", "native"}

\* what the module can find when it is loaded: window.localStorage there or
\* not, and the AsyncStorage package resolving to a module with getItem
\* ("ok"), to something without getItem, or not resolving (require throws)
Platforms == [localStorage : BOOLEAN, asyncStorage : {"ok", "noGetItem", "unresolved"}]

\* the wrapper trying AsyncStorage before localStorage
chooseStorage_NativeFirst(p) ==
    IF p.asyncStorage = "ok" THEN "native"
    ELSE IF p.localStorage THEN "web"
    ELSE "memory"

\* const Storage = (() => { ... })(): the wrapper the module builds once
chooseStorage(p) ==
    IF p.localStorage THEN "web"
    ELSE IF p.asyncStorage = "ok" THEN "native"
    ELSE "memory"

-----------------------------------------------------------------------------
(* Entries *)

getEmptyEntry ==
    Obj([morning |-> Obj([gratitude |-> Arr(<<Str(""), Str(""), Str("")>>)]),
         midday |-> Obj([caught |-> Arr(<<Bool(FALSE), Bool(FALSE), Bool(FALSE)>>),
                         reframe |-> Str("")]),
         night |-> Obj([wentWell |-> Str(""), handled |-> Str(""), improve |-> Str("")])])

\* v?.name
Prop(v, name) ==
    IF v.t = "object" /\ name \in DOMAIN v.props THEN v.props[name] ELSE Undefined

\* the properties copied by { ...v } for an object or an absent value
SpreadProps(v) == IF v.t = "object" THEN v.props ELSE <<>>

\* { ...f, [name]: v }
WithProp(f, name, v) == [n \in (DOMAIN f) \cup {name} |-> IF n = name THEN v ELSE f[n]]

\* a[index], index counted from 0
ItemAt(items, index) ==
    IF index + 1 \in 1..Len(items) /\ items[index + 1].t # "hole" THEN items[index + 1] ELSE Undefined

\* a[index] = v, index counted from 0; the array grows with holes when needed
ArraySet(items, index, v) ==
    [i \in 1..(IF index + 1 > Len(items) THEN index + 1 ELSE Len(items)) |->
        IF i = index + 1 THEN v ELSE IF i <= Len(items) THEN items[i] ELSE Hole]

\* updateGratitude starting an absent list as [] instead of ['', '', '']
updateGratitude_EmptyDefault(cur, index, text) ==
    LET g0 == Prop(Prop(cur, "morning"), "gratitude")
        g == IF g0.t = "array" THEN g0.items ELSE <<>>
        g1 == ArraySet(g, index, Str(text))
    IN Obj(WithProp(SpreadProps(cur), "morning",
                    Obj(WithProp(SpreadProps(Prop(cur, "morning")), "gratitude", Arr(g1)))))

updateGratitude(cur, index, text) ==
    LET g0 == Prop(Prop(cur, "morning"), "gratitude")
        g == IF g0.t = "array" THEN g0.items ELSE <<Str(""), Str(""), Str("")>>
        g1 == ArraySet(g, index, Str(text))
    IN Obj(WithProp(SpreadProps(cur), "morning",
                    Obj(WithProp(SpreadProps(Prop(cur, "morning")), "gratitude", Arr(g1)))))

toggleMidC(cur, idx) ==
    LET mid == SpreadProps(Prop(cur, "midday"))
        c0 == IF "caught" \in DOMAIN mid THEN mid["caught"] ELSE Undefined
        caught == IF c0.t = "array" THEN c0.items ELSE <<Bool(FALSE), Bool(FALSE), Bool(FALSE)>>
        c1 == ArraySet(caught, idx, Bool(~Truthy(ItemAt(caught, idx))))
    IN Obj(WithProp(SpreadProps(cur), "midday", Obj(WithProp(mid, "caught", Arr(c1)))))

updateMidReframe(cur, text) ==
    Obj(WithProp(SpreadProps(cur), "midday",
                 Obj(WithProp(SpreadProps(Prop(cur, "midday")), "reframe", Str(text)))))

updateNightField(cur, field, text) ==
    Obj(WithProp(SpreadProps(cur), "night",
                 Obj(WithProp(SpreadProps(Prop(cur, "night")), field, Str(text)))))

\* `current.morning`, `current.midday`, `current.night`: reading a property
\* of undefined or null is a TypeError
derefThrows(cur) == cur.t \in {"undefined", "null"}

\* an edit assigning into the object it was given, which is the entry the
\* collection holds once setCurrent(saved) has put it in the form
entriesAfterEdit_InPlace(ents, key, cur, updated) ==
    IF HasKey(ents, key) /\ GetKey(ents, key) = cur THEN SpreadSet(ents, key, updated) ELSE ents

\* what an edit leaves in the collection: it copies `current`, the edited
\* sub-record and the edited list before it changes them
entriesAfterEdit(ents, key, cur, updated) == ents

\* the effect on [loading, entries, todayKey]: what `current` is set to
syncCurrent(ents, key) ==
    LET saved == GetKey(ents, key)
    IN IF Truthy(saved) /\ TypeofObject(saved) THEN saved ELSE getEmptyEntry

-----------------------------------------------------------------------------
(* loadEntries *)

\* loadEntries without its catch: a SyntaxError of JSON.parse or a rejected
\* read leaves the function
loadEntriesResult_NoCatch(got) ==
    IF ~got.ok THEN [entries |-> EmptyColl, warned |-> {}, threw |-> TRUE, loading |-> FALSE]
    ELSE IF ~RawTruthy(got.raw) THEN [entries |-> EmptyColl, warned |-> {}, threw |-> FALSE, loading |-> FALSE]
    ELSE LET p == JSONparse(got.raw)
         IN IF ~p.ok THEN [entries |-> EmptyColl, warned |-> {}, threw |-> TRUE, loading |-> FALSE]
            ELSE IF Truthy(p.value) /\ TypeofObject(p.value)
                 THEN [entries |-> p.value, warned |-> {}, threw |-> FALSE, loading |-> FALSE]
                 ELSE [entries |-> EmptyColl, warned |-> {}, threw |-> FALSE, loading |-> FALSE]

\* loadEntries surfacing a failed read to the user state: the raw text is kept
loadEntriesResult_KeepsRaw(got) ==
    IF ~got.ok
    THEN [entries |-> EmptyColl, warned |-> {"Failed to load entries"}, threw |-> FALSE, loading |-> FALSE]
    ELSE IF ~RawTruthy(got.raw) THEN [entries |-> EmptyColl, warned |-> {}, threw |-> FALSE, loading |-> FALSE]
    ELSE LET p == JSONparse(got.raw)
         IN IF ~p.ok
            THEN [entries |-> Coll(<<Pair(<<Digit(0)>>, Str("raw"))>>),
                  warned |-> {"Failed to load entries"}, threw |-> FALSE, loading |-> FALSE]
            ELSE IF Truthy(p.value) /\ TypeofObject(p.value)
                 THEN [entries |-> p.value, warned |-> {}, threw |-> FALSE, loading |-> FALSE]
                 ELSE [entries |-> EmptyColl, warned |-> {}, threw |-> FALSE, loading |-> FALSE]

\* loadEntries with setLoading(false) at the end of the try instead of in
\* the finally: a failed read or parse leaves loading set
loadEntriesResult_NoFinally(got) ==
    IF ~got.ok
    THEN [entries |-> EmptyColl, warned |-> {"Failed to load entries"}, threw |-> FALSE,
          loading |-> TRUE]
    ELSE IF ~RawTruthy(got.raw)
    THEN [entries |-> EmptyColl, warned |-> {}, threw |-> FALSE, loading |-> FALSE]
    ELSE LET p == JSONparse(got.raw)
         IN IF ~p.ok
            THEN [entries |-> EmptyColl, warned |-> {"Failed to load entries"}, threw |-> FALSE,
                  loading |-> TRUE]
            ELSE IF Truthy(p.value) /\ TypeofObject(p.value)
                 THEN [entries |-> p.value, warned |-> {}, threw |-> FALSE, loading |-> FALSE]
                 ELSE [entries |-> EmptyColl, warned |-> {}, threw |-> FALSE, loading |-> FALSE]

\* what loadEntries passes to setEntries, given what `await Storage.getItem`
\* settled to, what it logs, whether an exception leaves it, and what its
\* finally leaves in `loading`
loadEntriesResult(got) ==
    IF ~got.ok
    THEN [entries |-> EmptyColl, warned |-> {"Failed to load entries"}, threw |-> FALSE, loading |-> FALSE]
    ELSE IF ~RawTruthy(got.raw) THEN [entries |-> EmptyColl, warned |-> {}, threw |-> FALSE, loading |-> FALSE]
    ELSE LET p == JSONparse(got.raw)
         IN IF ~p.ok
            THEN [entries |-> EmptyColl, warned |-> {"Failed to load entries"}, threw |-> FALSE, loading |-> FALSE]
            ELSE IF Truthy(p.value) /\ TypeofObject(p.value)
                 THEN [entries |-> p.value, warned |-> {}, threw |-> FALSE, loading |-> FALSE]
                 ELSE [entries |-> EmptyColl, warned |-> {}, threw |-> FALSE, loading |-> FALSE]

-----------------------------------------------------------------------------
(* Inputs of the application model *)

Versions == {"manual", "auto"}

Today == [y |-> 2025, m |-> 10, d |-> 5]
Tomorrow == [y |-> 2025, m |-> 10, d |-> 6]
Earlier == [y |-> 2025, m |-> 9, d |-> 30]

\* the days the user picks in the calendar
CalendarDays == {getTodayKey(Today), getTodayKey(Tomorrow)}

\* what the user types into a text field, and the fields the user edits
EditTexts == {"a"}
EditIndexes == {0, 2}
NightFields == {"wentWell"}

EntryA ==
    Obj([morning |-> Obj([gratitude |-> Arr(<<Str("a"), Str("b"), Str("")>>)]),
         midday |-> Obj([caught |-> Arr(<<Bool(TRUE), Bool(FALSE), Bool(FALSE)>>),
                         reframe |-> Str("")]),
         night |-> Obj([wentWell |-> Str("x"), handled |-> Str(""), improve |-> Str("")])])

EntryPartial == Obj([night |-> Obj([wentWell |-> Str("x")])])

\* what may be stored under STORAGE_KEY when the process starts
AppStores ==
    { NoItem,
      JsonText(Arr(<<EntryA>>)),
      JsonText(Coll(<<Pair(getTodayKey(Today), EntryPartial), Pair(getTodayKey(Earlier), EntryA)>>)) }

\* the same, with every kind of payload the load has to cope with
InitialStores ==
    { NoItem, EmptyText, InvalidText,
      JsonText(Num(5)), JsonText(Str("x")), JsonText(Bool(TRUE)), JsonText(Null),
      JsonText(Arr(<<EntryA>>)),
      JsonText(EmptyColl),
      JsonText(Coll(<<Pair(getTodayKey(Earlier), EntryA)>>)),
      JsonText(Coll(<<Pair(getTodayKey(Earlier), EntryA), Pair(getTodayKey(Today), EntryPartial)>>)),
      JsonText(Coll(<<Pair(getTodayKey(Today), EntryPartial), Pair(getTodayKey(Earlier), EntryA)>>)) }

-----------------------------------------------------------------------------
(* State of the application model *)

NoOp == [kind |-> "none"]
NoGot == [ok |-> TRUE, raw |-> NoItem, warned |-> {}]
LoadDone == [phase |-> "done", got |-> NoGot]
DialogClosed == [open |-> FALSE]
NoDate == <<>>
NoCharts == [rendered |-> FALSE]
NotRendered == [rendered |-> FALSE, historyArray |-> <<>>, summaries |-> <<>>, charts |-> NoCharts,
                selectedDate |-> NoDate]

\* the mount effect has called loadEntries, which is suspended at
\* `await Storage.getItem`; localStorage and the in-memory map answer at once
InitWith(stores) ==
    /\ version \in Versions
    /\ platform \in Platforms
    /\ backend = chooseStorage(platform)
    /\ store \in (IF backend = "memory" THEN {NoItem} ELSE stores)
    /\ loading = TRUE
    /\ entries = EmptyColl
    /\ current = getEmptyEntry
    /\ todayKey = getTodayKey(Today)
    /\ selected = NoDate
    /\ \E fails \in (IF backend = "web" THEN BOOLEAN ELSE {FALSE}) :
         loadOp = IF backend = "native"
                  THEN [phase |-> "pending", got |-> NoGot]
                  ELSE [phase |-> "settled", got |-> StorageGetItem(backend, store, fails)]
    /\ ops = <<>>
    /\ dialog = DialogClosed
    /\ alert = "none"
    /\ warnings = (IF loadOp.phase = "settled" THEN loadOp.got.warned ELSE {})
    /\ uncaught = FALSE
    /\ last = [kind |-> "none", op |-> NoOp, got |-> NoGot]
    /\ nOps = 0
    /\ initialStore = store
    /\ disturbed = FALSE
    /\ view = NotRendered

Init == InitWith(AppStores)

InitLoad == InitWith(InitialStores)

\* a continuation that runs before any further event: the promises of the
\* web and in-memory wrappers are settled when they are returned
Microtask == backend # "native" /\ (loadOp.phase = "settled" \/ ops # <<>>)

\* a store operation is under way
Busy == loadOp.phase # "done" \/ ops # <<>>

\* the user can act on the form
CanInteract ==
    /\ ~uncaught
    /\ ~dialog.open
    /\ ~Microtask
    /\ (version = "auto" => ~loading)

-----------------------------------------------------------------------------
(* loadEntries *)

\* AsyncStorage answers the read
BackendRead ==
    /\ backend = "native"
    /\ loadOp.phase = "pending"
    /\ \E fails \in BOOLEAN :
         loadOp' = [phase |-> "settled", got |-> StorageGetItem(backend, store, fails)]
    /\ UNCHANGED <<platform, version, selected, backend, initialStore, disturbed, store, loading, entries,
                   current, todayKey,
                   ops, dialog, alert, warnings, uncaught, last, nOps, view>>

\* loadEntries resumes after the await, then the effect on
\* [loading, entries, todayKey] runs
LoadComplete ==
    /\ loadOp.phase = "settled"
    /\ LET r == loadEntriesResult(loadOp.got)
       IN /\ entries' = r.entries
          /\ warnings' = warnings \cup r.warned
          /\ current' = syncCurrent(r.entries, todayKey)
          /\ uncaught' = (uncaught \/ r.threw)
          /\ loading' = r.loading
    /\ loadOp' = LoadDone
    /\ last' = [kind |-> "load", op |-> NoOp, got |-> loadOp.got]
    /\ UNCHANGED <<platform, version, selected, backend, initialStore, disturbed, store, todayKey, ops, dialog,
                   alert, nOps, view>>

-----------------------------------------------------------------------------
(* saveCurrent and the Clear button of the confirmation: both build the    *)
(* whole new collection from the `entries` of their closure, hand its text *)
(* to Storage.setItem and call setEntries after the await.                 *)

\* the handler forgetting to spread the entries of its closure
updatedCollection_OnlyKey(kind, snap, key, entry) ==
    IF kind = "save" THEN Coll(<<Pair(key, entry)>>) ELSE SpreadDelete(snap, key)

\* the collection the handler builds from the entries `snap` of its closure
updatedCollection(kind, snap, key, entry) ==
    IF kind = "save" THEN SpreadSet(snap, key, entry) ELSE SpreadDelete(snap, key)

\* the record of a call: `alone` notes that no other store operation was
\* under way when its closure was made; `wrote` is what became of its write
NewOp(kind, snap, key, entry, alone) ==
    [kind |-> kind, key |-> key, entry |-> entry, snapshot |-> snap,
     updated |-> updatedCollection(kind, snap, key, entry),
     text |-> JSONstringify(updatedCollection(kind, snap, key, entry)),
     phase |-> "pending", wrote |-> "no", alone |-> alone]

NotAlone(os) == [i \in 1..Len(os) |-> [os[i] EXCEPT !.alone = FALSE]]

\* the handler runs up to its await: the web and in-memory wrappers write in
\* the call itself, AsyncStorage writes later
StartOp(kind, snap, key, entry, alone) ==
    /\ Len(ops) < MaxInFlight
    /\ IF backend = "native"
       THEN /\ ops' = Append(NotAlone(ops), NewOp(kind, snap, key, entry, alone))
            /\ disturbed' = (disturbed \/ ~alone)
            /\ UNCHANGED <<store, warnings>>
       ELSE \E fails \in (IF CanFail(backend) THEN BOOLEAN ELSE {FALSE}) :
              LET op == NewOp(kind, snap, key, entry, alone)
                  r == StorageSetItem(backend, store, op.text, fails)
              IN /\ store' = r.item
                 /\ warnings' = warnings \cup r.warned
                 /\ disturbed' = (disturbed \/ ~alone \/ fails)
                 /\ ops' = Append(NotAlone(ops),
                                  [op EXCEPT !.phase = IF r.ok THEN "resolved" ELSE "rejected",
                                             !.wrote = IF fails THEN "failed" ELSE "ok"])

\* AsyncStorage performs (or fails) the write of a suspended call
BackendWrite ==
    /\ backend = "native"
    /\ \E i \in 1..Len(ops) :
         /\ ops[i].phase = "pending"
         /\ \E fails \in BOOLEAN :
              LET r == StorageSetItem(backend, store, ops[i].text, fails)
              IN /\ store' = r.item
                 /\ disturbed' = (disturbed \/ fails)
                 /\ ops' = [ops EXCEPT ![i].phase = IF r.ok THEN "resolved" ELSE "rejected",
                                       ![i].wrote = IF fails THEN "failed" ELSE "ok"]
    /\ UNCHANGED <<platform, version, selected, backend, initialStore, loading, entries, current, todayKey, loadOp,
                   dialog, alert, warnings, uncaught, last, nOps, view>>

RemoveAt(q, i) == [j \in 1..(Len(q) - 1) |-> IF j < i THEN q[j] ELSE q[j + 1]]

\* the handler calling setEntries before the await (an optimistic update)
afterAwait_Optimistic(op, ents, cur, key, isLoading, ver, shown) ==
    IF op.phase = "resolved"
    THEN [entries |-> op.updated,
          current |-> IF ~isLoading THEN syncCurrent(op.updated, key)
                      ELSE IF op.kind = "clear" THEN getEmptyEntry ELSE cur,
          alert |-> IF op.kind = "save" /\ ver = "manual" THEN "Saved" ELSE shown,
          warned |-> {}, threw |-> FALSE]
    ELSE [entries |-> op.updated,
          current |-> cur,
          alert |-> IF op.kind = "save" THEN "Could not save." ELSE "Could not clear today.",
          warned |-> IF op.kind = "save" THEN {"Save failed"} ELSE {"Clear failed"},
          threw |-> FALSE]

\* the handler without its catch: a rejected write leaves it as an exception
afterAwait_NoCatch(op, ents, cur, key, isLoading, ver, shown) ==
    IF op.phase = "resolved"
    THEN [entries |-> op.updated,
          current |-> IF ~isLoading THEN syncCurrent(op.updated, key)
                      ELSE IF op.kind = "clear" THEN getEmptyEntry ELSE cur,
          alert |-> IF op.kind = "save" /\ ver = "manual" THEN "Saved" ELSE shown,
          warned |-> {}, threw |-> FALSE]
    ELSE [entries |-> ents, current |-> cur, alert |-> shown, warned |-> {}, threw |-> TRUE]

\* the handler applying its change to the latest collection, as
\* setEntries(prev => ...) would
afterAwait_Merge(op, ents, cur, key, isLoading, ver, shown) ==
    LET merged == updatedCollection(op.kind, ents, op.key, op.entry)
    IN IF op.phase = "resolved"
       THEN [entries |-> merged,
             current |-> IF ~isLoading THEN syncCurrent(merged, key)
                         ELSE IF op.kind = "clear" THEN getEmptyEntry ELSE cur,
             alert |-> IF op.kind = "save" /\ ver = "manual" THEN "Saved" ELSE shown,
             warned |-> {}, threw |-> FALSE]
       ELSE [entries |-> ents,
             current |-> cur,
             alert |-> IF op.kind = "save" THEN "Could not save." ELSE "Could not clear today.",
             warned |-> IF op.kind = "save" THEN {"Save failed"} ELSE {"Clear failed"},
             threw |-> FALSE]

\* what the handler does after the await: the state it leaves in `entries`,
\* `current`, `alert` and the log, given how the promise settled, and whether
\* an exception leaves the handler
afterAwait(op, ents, cur, key, isLoading, ver, shown) ==
    IF op.phase = "resolved"
    THEN [entries |-> op.updated,
          current |-> IF ~isLoading THEN syncCurrent(op.updated, key)
                      ELSE IF op.kind = "clear" THEN getEmptyEntry ELSE cur,
          alert |-> IF op.kind = "save" /\ ver = "manual" THEN "Saved" ELSE shown,
          warned |-> {}, threw |-> FALSE]
    ELSE [entries |-> ents,
          current |-> cur,
          alert |-> IF op.kind = "save" THEN "Could not save." ELSE "Could not clear today.",
          warned |-> IF op.kind = "save" THEN {"Save failed"} ELSE {"Clear failed"},
          threw |-> FALSE]

\* a suspended call resumes after its await
OpComplete ==
    /\ \E i \in 1..Len(ops) :
         /\ ops[i].phase \in {"resolved", "rejected"}
         /\ LET r == afterAwait(ops[i], entries, current, todayKey, loading, version, alert)
            IN /\ entries' = r.entries
               /\ current' = r.current
               /\ alert' = r.alert
               /\ warnings' = warnings \cup r.warned
               /\ uncaught' = (uncaught \/ r.threw)
         /\ last' = [kind |-> ops[i].kind, op |-> ops[i], got |-> NoGot]
         /\ ops' = RemoveAt(ops, i)
    /\ UNCHANGED <<platform, version, selected, backend, initialStore, disturbed, store, loading, todayKey,
                   loadOp, dialog, nOps, view>>

-----------------------------------------------------------------------------
(* The form *)

\* an edit of the form: the manual draft changes `current` only, the
\* auto-save draft also calls saveCurrent(updated)
EditStep(updated) ==
    /\ CanInteract
    /\ nOps < MaxOps
    /\ nOps' = nOps + 1
    /\ IF derefThrows(current)
       THEN /\ uncaught' = TRUE
            /\ UNCHANGED <<current, entries, store, warnings, ops, disturbed>>
       ELSE /\ current' = updated
            /\ entries' = entriesAfterEdit(entries, todayKey, current, updated)
            /\ uncaught' = uncaught
            /\ IF version = "manual"
               THEN UNCHANGED <<store, warnings, ops, disturbed>>
               ELSE StartOp("save", entries, todayKey, updated, ~Busy)
    /\ UNCHANGED <<platform, version, selected, backend, initialStore, loading, todayKey, loadOp, dialog,
                   alert, last, view>>

UpdateGratitude == \E i \in EditIndexes, text \in EditTexts : EditStep(updateGratitude(current, i, text))

ToggleMidC == \E i \in EditIndexes : EditStep(toggleMidC(current, i))

UpdateMidReframe == \E text \in EditTexts : EditStep(updateMidReframe(current, text))

UpdateNightField == \E f \in NightFields, text \in EditTexts : EditStep(updateNightField(current, f, text))

\* "Save Today" of the manual draft
PressSave ==
    /\ version = "manual"
    /\ CanInteract
    /\ nOps < MaxOps
    /\ StartOp("save", entries, todayKey, current, ~Busy)
    /\ nOps' = nOps + 1
    /\ UNCHANGED <<platform, version, selected, backend, initialStore, loading, entries, current, todayKey, loadOp,
                   dialog, alert, uncaught, last, view>>

\* clearToday: the auto-save draft empties the form first; the confirmation
\* keeps the `entries` and `todayKey` of the render that made its buttons
\* (`form` notes what the form showed when Clear was pressed)
PressClear ==
    /\ CanInteract
    /\ nOps < MaxOps
    /\ current' = (IF version = "auto" THEN getEmptyEntry ELSE current)
    /\ dialog' = [open |-> TRUE, entries |-> entries, key |-> todayKey, alone |-> ~Busy,
                  form |-> current]
    /\ alert' = "Clear today's entry?"
    /\ nOps' = nOps + 1
    /\ UNCHANGED <<platform, version, selected, backend, initialStore, disturbed, store, loading, entries, todayKey, loadOp, ops,
                   warnings, uncaught, last, view>>

DialogCancel ==
    /\ dialog.open
    /\ ~Microtask
    /\ dialog' = DialogClosed
    /\ last' = [kind |-> "cancel", op |-> NoOp, got |-> NoGot]
    /\ UNCHANGED <<platform, version, selected, backend, initialStore, disturbed, store, loading, entries, current, todayKey, loadOp,
                   ops, alert, warnings, uncaught, nOps, view>>

DialogConfirm ==
    /\ dialog.open
    /\ ~Microtask
    /\ StartOp("clear", dialog.entries, dialog.key, Undefined, dialog.alone /\ ~Busy)
    /\ dialog' = DialogClosed
    /\ UNCHANGED <<platform, version, selected, backend, initialStore, loading, entries, current, todayKey, loadOp,
                   alert, uncaught, last, nOps, view>>

\* handleDateSelect forgetting setTodayKey: the form shows the day pressed,
\* the handlers keep the key of the day before
DateSelect_KeepsKey ==
    /\ version = "auto"
    /\ CanInteract
    /\ nOps < MaxOps
    /\ \E day \in CalendarDays :
         /\ selected' = day
         /\ todayKey' = todayKey
         /\ current' = syncCurrent(entries, day)
    /\ nOps' = nOps + 1
    /\ UNCHANGED <<platform, version, backend, initialStore, disturbed, store, loading, entries, loadOp, ops, dialog,
                   alert, warnings, uncaught, last, view>>

\* handleDateSelect of the auto-save draft, and the effect on todayKey
DateSelect ==
    /\ version = "auto"
    /\ CanInteract
    /\ nOps < MaxOps
    /\ \E day \in CalendarDays :
         /\ selected' = day
         /\ todayKey' = day
         /\ current' = syncCurrent(entries, day)
    /\ nOps' = nOps + 1
    /\ UNCHANGED <<platform, version, backend, initialStore, disturbed, store, loading, entries, loadOp, ops, dialog,
                   alert, warnings, uncaught, last, view>>

\* the manual draft computes todayKey from the clock on each render: a render
\* after midnight addresses the next day, and the effect on todayKey runs
DayRollover ==
    /\ version = "manual"
    /\ CanInteract
    /\ todayKey = getTodayKey(Today)
    /\ todayKey' = getTodayKey(Tomorrow)
    /\ current' = (IF loading THEN current ELSE syncCurrent(entries, getTodayKey(Tomorrow)))
    /\ UNCHANGED <<platform, version, selected, backend, initialStore, disturbed, store, loading, entries, loadOp, ops, dialog,
                   alert, warnings, uncaught, last, nOps, view>>

Next ==
    \/ BackendRead
    \/ LoadComplete
    \/ BackendWrite
    \/ OpComplete
    \/ UpdateGratitude
    \/ ToggleMidC
    \/ UpdateMidReframe
    \/ UpdateNightField
    \/ PressSave
    \/ PressClear
    \/ DialogCancel
    \/ DialogConfirm
    \/ DateSelect
    \/ DayRollover

Spec == Init /\ [][Next]_vars

\* the same with a backend that answers every pending read and a scheduler
\* that resumes loadEntries once its promise is settled
SpecFair == Spec /\ WF_vars(BackendRead) /\ WF_vars(LoadComplete)

\* the load alone, over every kind of stored payload
NextLoad ==
    \/ BackendRead
    \/ LoadComplete

SpecLoad == InitLoad /\ [][NextLoad]_vars

-----------------------------------------------------------------------------
(* The history list: the seven latest keys, newest first *)

HistoryLimit == 7

\* the comparator with its arguments the other way round
historyCompare_Ascending(a, b) == localeCompare(a, b)

\* the comparator of the history list: (a, b) => b.localeCompare(a)
historyCompare(a, b) == localeCompare(b, a)

Compare(which, a, b) == IF which = "history" THEN historyCompare(a, b) ELSE localeCompare(a, b)

\* x put into the sorted sequence s before the first item it sorts before
RECURSIVE InsertSorted(_, _, _)
InsertSorted(which, s, x) ==
    IF s = <<>> THEN <<x>>
    ELSE IF Compare(which, x, Head(s)) < 0 THEN <<x>> \o s
    ELSE <<Head(s)>> \o InsertSorted(which, Tail(s), x)

\* keys.sort(comparator), a stable sort
RECURSIVE SortKeys(_, _)
SortKeys(which, keys) ==
    IF keys = <<>> THEN <<>>
    ELSE InsertSorted(which, SortKeys(which, SubSeq(keys, 1, Len(keys) - 1)), keys[Len(keys)])

\* s.slice(0, n)
SliceFirst(s, n) == SubSeq(s, 1, Min(n, Len(s)))

\* Object.keys(entries || {}).sort(...).slice(0, 7).map(k => ({ key: k, value: entries[k] }))
historyArray(ents) ==
    LET shown == SliceFirst(SortKeys("history", ObjectKeys(ents)), HistoryLimit)
    IN [i \in 1..Len(shown) |-> [key |-> shown[i], value |-> GetKey(ents, shown[i])]]

-----------------------------------------------------------------------------
(* The summary line of a history item *)

\* a.filter(Boolean).length: holes are skipped, truthy items are counted
CountTruthy(items) ==
    Cardinality({i \in 1..Len(items) : items[i].t # "hole" /\ Truthy(items[i])})

\* x ?? {}
OrEmptyObject(x) == IF x.t \in {"undefined", "null"} THEN Obj(<<>>) ELSE x

\* the items of v when Array.isArray(v), else those of []
ItemsOrNone(v) == IF v.t = "array" THEN v.items ELSE <<>>

\* renderHistoryItem({ item }): the key and the three counts of its line
renderHistoryItem(item) ==
    LET value == OrEmptyObject(item.value)
        morning == Prop(value, "morning")
        morningGratitude == IF Truthy(morning) THEN ItemsOrNone(Prop(morning, "gratitude")) ELSE <<>>
        midday == Prop(value, "midday")
        caught == IF Truthy(midday) THEN ItemsOrNone(Prop(midday, "caught")) ELSE <<>>
        night == Prop(value, "night")
    IN [key |-> item.key,
        morningCount |-> CountTruthy(morningGratitude),
        caughtCount |-> CountTruthy(caught),
        nightFilled |-> CountTruthy(<<Prop(night, "wentWell"), Prop(night, "handled"),
                                      Prop(night, "improve")>>)]

-----------------------------------------------------------------------------
(* PerformanceTab: the date window and the two chart series *)

DefaultWindow == 7

\* s.trim() on the texts of the model: " " is the one made of white space
trim(s) == IF s = " " THEN "" ELSE s

\* Math.round(num / den) for num >= 0, den > 0
MathRound(num, den) == (2 * num + den) \div (2 * den)

\* s.slice(-n) keeping n items whatever n is
SliceLast_Clamped(s, n) == SubSeq(s, Len(s) - Min(n, Len(s)) + 1, Len(s))

\* the slice taken from the start, as slice(0, n)
SliceLast_FromStart(s, n) == SubSeq(s, 1, Min(n, Len(s)))

\* s.slice(-n) for n >= 0: -0 is 0, and slice(0) is the whole array
SliceLast(s, n) ==
    IF n = 0 THEN s ELSE SubSeq(s, Len(s) - Min(n, Len(s)) + 1, Len(s))

\* Object.keys(entries || {}).sort((a, b) => a.localeCompare(b)).slice(-n)
getLastNDays(ents, n) == SliceLast(SortKeys("chart", ObjectKeys(ents)), n)

\* entries[date] || {}
EntryOrEmpty(ents, date) ==
    LET e == GetKey(ents, date) IN IF Truthy(e) THEN e ELSE Obj(<<>>)

\* v && v.trim(): falsy for a falsy v, the truthiness of the trimmed text for
\* a string, and a TypeError for any other truthy v (it has no trim)
FilledText(v) ==
    IF ~Truthy(v) THEN [threw |-> FALSE, filled |-> FALSE]
    ELSE IF v.t = "string" THEN [threw |-> FALSE, filled |-> trim(v.s) # ""]
    ELSE [threw |-> TRUE, filled |-> FALSE]

\* items.filter(g => g && g.trim()).length, and whether the callback threw
CountFilled(items) ==
    LET seen == {i \in 1..Len(items) : items[i].t # "hole"}
    IN [count |-> Cardinality({i \in seen : FilledText(items[i]).filled}),
        threw |-> \E i \in seen : FilledText(items[i]).threw]

\* the gratitude count of the charts (PerformanceTab.js 24-26 and 65-67)
gratitudeCount(entry) ==
    LET morning == Prop(entry, "morning")
        g == Prop(morning, "gratitude")
    IN IF Truthy(morning) /\ g.t = "array" THEN CountFilled(g.items)
       ELSE [count |-> 0, threw |-> FALSE]

\* the count of filled night fields of the completion chart
nightCount(entry) ==
    LET night == Prop(entry, "night")
    IN IF Truthy(night)
       THEN CountFilled(<<Prop(night, "wentWell"), Prop(night, "handled"), Prop(night, "improve")>>)
       ELSE [count |-> 0, threw |-> FALSE]

\* entry => Math.round((count / 6) * 100) of getConsistencyData
completionPercent(entry) ==
    [percent |-> MathRound((gratitudeCount(entry).count + nightCount(entry).count) * 100, 6),
     threw |-> gratitudeCount(entry).threw \/ nightCount(entry).threw]

\* Math.round((gratitudeCount / 3) * 100) of getGratitudeAndComplaintData
gratitudePercent(entry) ==
    [percent |-> MathRound(gratitudeCount(entry).count * 100, 3),
     threw |-> gratitudeCount(entry).threw]

\* the flag read from any of the three checkboxes
complaintPercent_AnyFlag(entry) ==
    LET midday == Prop(entry, "midday")
        caught == Prop(midday, "caught")
    IN IF Truthy(midday) /\ caught.t = "array" /\ CountTruthy(caught.items) > 0 THEN 100 ELSE 0

\* complained ? 100 : 0, where complained = !!entry.midday.caught[0]
complaintPercent(entry) ==
    LET midday == Prop(entry, "midday")
        caught == Prop(midday, "caught")
    IN IF Truthy(midday) /\ caught.t = "array" /\ Truthy(ItemAt(caught.items, 0)) THEN 100 ELSE 0

\* getConsistencyData(entries): fullLabels and datasets[0].data
getConsistencyData(ents) ==
    LET lastDates == getLastNDays(ents, DefaultWindow)
        points == [i \in 1..Len(lastDates) |-> completionPercent(EntryOrEmpty(ents, lastDates[i]))]
    IN [fullLabels |-> lastDates,
        data |-> [i \in 1..Len(lastDates) |-> points[i].percent],
        threw |-> \E i \in 1..Len(lastDates) : points[i].threw]

\* getGratitudeAndComplaintData(entries, n): fullLabels and the two datasets
getGratitudeAndComplaintData(ents, n) ==
    LET lastDates == getLastNDays(ents, n)
        g == [i \in 1..Len(lastDates) |-> gratitudePercent(EntryOrEmpty(ents, lastDates[i]))]
    IN [fullLabels |-> lastDates,
        complaintData |-> [i \in 1..Len(lastDates) |-> complaintPercent(EntryOrEmpty(ents, lastDates[i]))],
        gratitudeData |-> [i \in 1..Len(lastDates) |-> g[i].percent],
        threw |-> \E i \in 1..Len(lastDates) : g[i].threw]

-----------------------------------------------------------------------------
(* The views applied to collections of up to MaxHistKeys dates, in several *)
(* insertion orders.                                                       *)

\* the i-th date given to the views; consecutive dates differ in year and month
HistDate(i) == [y |-> 2024 + (i % 2), m |-> 1 + ((i * 5) % 12), d |-> i]

Ascending == [i \in 1..MaxHistKeys |-> i]
Descending == [i \in 1..MaxHistKeys |-> MaxHistKeys + 1 - i]
OddsThenEvens ==
    SelectSeq(Ascending, LAMBDA i : i % 2 = 1) \o SelectSeq(Ascending, LAMBDA i : i % 2 = 0)

InsertionOrders == {Ascending, Descending, OddsThenEvens}

\* the collection whose keys are the dates numbered in `chosen`, inserted in `order`
ViewInput(chosen, order) ==
    LET idx == SelectSeq(order, LAMBDA i : i \in chosen)
    IN Coll([j \in 1..Len(idx) |->
                Pair(getTodayKey(HistDate(idx[j])), IF idx[j] % 2 = 0 THEN EntryA ELSE EntryPartial)])

ViewInputs == {ViewInput(chosen, order) : chosen \in SUBSET (1..MaxHistKeys), order \in InsertionOrders}

\* an object with the given sub-objects; an undefined one is absent
EntryOf(morning, midday, night) ==
    LET field == [morning |-> morning, midday |-> midday, night |-> night]
    IN Obj([name \in {x \in DOMAIN field : field[x].t # "undefined"} |-> field[name]])

\* what a stored entry may hold as morning, midday and night: complete,
\* partial, absent, null, and lists of another length or of other items
ViewMornings ==
    { Undefined, Null, Obj(<<>>), Obj([gratitude |-> Str("abc")]) }
    \cup { Obj([gratitude |-> Arr(g)]) :
             g \in { <<Str(""), Str(""), Str("")>>, <<Str("a"), Str("b"), Str("")>>,
                     <<Str(" "), Str(""), Str("a")>>, <<Str("a"), Str("b"), Str("c")>>,
                     <<Str("a"), Str("b"), Str("c"), Str("d")>>, <<Str("a")>>,
                     <<Str("a"), Hole, Str("b")>>, <<Str("a"), Num(5), Str("")>> } }

ViewMiddays ==
    { Undefined, Null, Obj([reframe |-> Str("r")]), Obj([caught |-> Str("yes"), reframe |-> Str("")]) }
    \cup { Obj([caught |-> Arr(c), reframe |-> Str("")]) :
             c \in { <<Bool(FALSE), Bool(FALSE), Bool(FALSE)>>, <<Bool(TRUE), Bool(FALSE), Bool(FALSE)>>,
                     <<Bool(FALSE), Bool(TRUE), Bool(TRUE)>>, <<Bool(TRUE), Bool(TRUE), Bool(TRUE)>>,
                     <<Bool(TRUE), Bool(TRUE), Bool(TRUE), Bool(TRUE)>>, <<>>,
                     <<Hole, Hole, Bool(TRUE)>> } }

ViewNights ==
    { Undefined, Null,
      Obj([wentWell |-> Str("x")]),
      Obj([wentWell |-> Str("x"), handled |-> Str(" "), improve |-> Str("")]),
      Obj([wentWell |-> Str("x"), handled |-> Str("y"), improve |-> Str("z")]) }

ViewEntries ==
    { EntryOf(m, d, n) : m \in ViewMornings, d \in ViewMiddays, n \in ViewNights }
    \cup { Null, Str("x"), getEmptyEntry }

\* the collections holding one of these entries under today's key
EntryInputs == { Coll(<<Pair(getTodayKey(Today), e)>>) : e \in ViewEntries }

\* the window sizes given to the chart series
Windows == (0..MaxWindow) \cup {DefaultWindow}

\* a loaded application showing the collection `entries`, its views not yet
\* rendered; the history and performance tabs are those of the auto-save draft
InitViews ==
    /\ version = "auto"
    /\ platform = [localStorage |-> FALSE, asyncStorage |-> "unresolved"]
    /\ backend = chooseStorage(platform)
    /\ entries \in ViewInputs \cup EntryInputs
    /\ store = JSONstringify(entries)
    /\ initialStore = NoItem
    /\ loading = FALSE
    /\ todayKey = getTodayKey(Today)
    /\ selected = NoDate
    /\ current = syncCurrent(entries, todayKey)
    /\ loadOp = LoadDone
    /\ ops = <<>>
    /\ dialog = DialogClosed
    /\ alert = "none"
    /\ warnings = {}
    /\ uncaught = FALSE
    /\ last = [kind |-> "none", op |-> NoOp, got |-> NoGot]
    /\ nOps = 0
    /\ disturbed = FALSE
    /\ view = NotRendered

\* what a view leaves in the collection it was given, sorting its keys in place
entriesAfterViews_SortsInPlace(ents) ==
    LET keys == SortKeys("chart", ObjectKeys(ents))
    IN Coll([i \in 1..Len(keys) |-> Pair(keys[i], GetKey(ents, keys[i]))])

\* what a view leaves in the collection it was given: Object.keys makes a
\* new array, sort, slice, map and filter work on that array and on copies
entriesAfterViews(ents) == ents

\* the history list is rendered from `entries`
RenderHistory ==
    /\ LET h == historyArray(entries)
       IN view' = [view EXCEPT !.rendered = TRUE,
                               !.historyArray = h,
                               !.summaries = [i \in 1..Len(h) |-> renderHistoryItem(h[i])]]
    /\ entries' = entriesAfterViews(entries)
    /\ UNCHANGED <<platform, version, selected, backend, initialStore, disturbed, store, loading, current,
                   todayKey, loadOp, ops, dialog, alert, warnings, uncaught, last, nOps>>

\* the two chart series are computed from `entries`; the tab asks for a
\* window of 7, the function takes any n
RenderPerformance ==
    /\ LET consistency == getConsistencyData(entries)
       IN \E n \in Windows :
            LET combined == getGratitudeAndComplaintData(entries, n)
            IN /\ view' = [view EXCEPT !.charts = [rendered |-> TRUE, n |-> n,
                                                  consistency |-> consistency,
                                                  combined |-> combined]]
               /\ uncaught' = (uncaught \/ consistency.threw \/ combined.threw)
    /\ entries' = entriesAfterViews(entries)
    /\ UNCHANGED <<platform, version, selected, backend, initialStore, disturbed, store, loading, current,
                   todayKey, loadOp, ops, dialog, alert, warnings, last, nOps>>

NextViews ==
    \/ RenderHistory
    \/ RenderPerformance

SpecViews == InitViews /\ [][NextViews]_vars

-----------------------------------------------------------------------------
(* The form alone: every edit, from every entry with absent sub-fields *)

FormIndexes == 0..2
FormFields == {"wentWell", "handled", "improve"}

\* what a stored entry may hold as morning, midday and night when sub-fields
\* are absent
FormMornings ==
    { Undefined, Null, Obj(<<>>), Obj([gratitude |-> Arr(<<Str("a"), Str("b"), Str("")>>)]) }

FormMiddays ==
    { Undefined, Null, Obj(<<>>), Obj([reframe |-> Str("r")]),
      Obj([caught |-> Arr(<<Bool(TRUE), Bool(FALSE), Bool(FALSE)>>)]),
      Obj([caught |-> Arr(<<Bool(FALSE), Bool(TRUE), Bool(FALSE)>>), reframe |-> Str("")]) }

FormNights == { Undefined, Obj([wentWell |-> Str("x")]) }

FormEntries == { EntryOf(m, d, n) : m \in FormMornings, d \in FormMiddays, n \in FormNights }

\* the collections the form starts from: nothing saved for today, or one of
\* these entries
FormInputs == {EmptyColl} \cup { Coll(<<Pair(getTodayKey(Today), e)>>) : e \in FormEntries }

\* a loaded application in the browser: the effect has put today's saved
\* entry, or the empty entry, in the form
InitForm ==
    /\ version \in Versions
    /\ platform = [localStorage |-> TRUE, asyncStorage |-> "unresolved"]
    /\ backend = chooseStorage(platform)
    /\ entries \in FormInputs
    /\ store = JSONstringify(entries)
    /\ initialStore = store
    /\ loading = FALSE
    /\ todayKey = getTodayKey(Today)
    /\ selected = NoDate
    /\ current = syncCurrent(entries, todayKey)
    /\ loadOp = LoadDone
    /\ ops = <<>>
    /\ dialog = DialogClosed
    /\ alert = "none"
    /\ warnings = {}
    /\ uncaught = FALSE
    /\ last = [kind |-> "load", op |-> NoOp, got |-> NoGot]
    /\ nOps = 0
    /\ disturbed = FALSE
    /\ view = NotRendered

EditGratitude == \E i \in FormIndexes, text \in EditTexts : EditStep(updateGratitude(current, i, text))

EditCaught == \E i \in FormIndexes : EditStep(toggleMidC(current, i))

EditReframe == \E text \in EditTexts : EditStep(updateMidReframe(current, text))

EditNight == \E f \in FormFields, text \in EditTexts : EditStep(updateNightField(current, f, text))

NextForm ==
    \/ EditGratitude
    \/ EditCaught
    \/ EditReframe
    \/ EditNight
    \/ OpComplete

SpecForm == InitForm /\ [][NextForm]_vars

-----------------------------------------------------------------------------
(* The history calendar, mounted with the `entries` of App *)

\* the dates getMarkedDates gives to the calendar
getMarkedDates(ents) == {ObjectKeys(ents)[i] : i \in 1..Len(ObjectKeys(ents))}

\* const isMarked = !!entries[dateStr]
isMarked(ents, dateStr) == Truthy(GetKey(ents, dateStr))

\* onPress of a day: the selectedDate it leaves
onPressDay(ents, sel, dateStr) ==
    IF isMarked(ents, dateStr)
    THEN (IF dateStr = sel THEN NoDate ELSE dateStr)
    ELSE sel

\* the days of the calendar the user presses
HistoryDays == {getTodayKey(Today), getTodayKey(Tomorrow), getTodayKey(Earlier)}

\* the collections the calendar is shown
CalendarInputs ==
    { Coll(<<Pair(getTodayKey(Today), EntryA)>>),
      Coll(<<Pair(getTodayKey(Earlier), EntryA), Pair(getTodayKey(Today), EntryPartial)>>) }

\* a loaded application of the auto-save draft, nothing selected in the
\* history calendar
InitCalendar ==
    /\ version = "auto"
    /\ platform \in {p \in Platforms : chooseStorage(p) # "memory"}
    /\ backend = chooseStorage(platform)
    /\ entries \in CalendarInputs
    /\ store = JSONstringify(entries)
    /\ initialStore = store
    /\ loading = FALSE
    /\ todayKey = getTodayKey(Today)
    /\ selected = NoDate
    /\ current = syncCurrent(entries, todayKey)
    /\ loadOp = LoadDone
    /\ ops = <<>>
    /\ dialog = DialogClosed
    /\ alert = "none"
    /\ warnings = {}
    /\ uncaught = FALSE
    /\ last = [kind |-> "load", op |-> NoOp, got |-> NoGot]
    /\ nOps = 0
    /\ disturbed = FALSE
    /\ view = NotRendered

\* the user presses a day of the history calendar
PressDay ==
    /\ version = "auto"
    /\ CanInteract
    /\ \E dateStr \in HistoryDays :
         view' = [view EXCEPT !.selectedDate = onPressDay(entries, view.selectedDate, dateStr)]
    /\ UNCHANGED <<platform, version, selected, backend, initialStore, disturbed, store, loading, entries,
                   current, todayKey, loadOp, ops, dialog, alert, warnings, uncaught, last, nOps>>

NextCalendar ==
    \/ PressDay
    \/ UpdateGratitude
    \/ PressClear
    \/ DialogCancel
    \/ DialogConfirm
    \/ DateSelect
    \/ BackendWrite
    \/ OpComplete

SpecCalendar == InitCalendar /\ [][NextCalendar]_vars

-----------------------------------------------------------------------------
(* Properties *)

\* two collections hold the same keys with the same values (order apart)
StructEq(a, b) ==
    /\ KeySet(a) = KeySet(b)
    /\ \A k \in KeySet(a) : GetKey(a, k) = GetKey(b, k)

\* number of properties of collection v named k
Occurrences(v, k) == Cardinality({i \in 1..Len(OwnPairs(v)) : OwnPairs(v)[i].key = k})

\* this step resumes a suspended save or clear; last' tells which
OpCompletes == Len(ops') = Len(ops) - 1

\* this step resumes loadEntries after its await
LoadCompletes == loadOp.phase = "settled" /\ loadOp'.phase = "done"

\* in this step the write of the suspended call ops'[i] succeeds
WriteSucceeds(i) ==
    /\ Len(ops') >= Len(ops)
    /\ ops'[i].wrote = "ok"
    /\ (i > Len(ops) \/ ops[i].wrote = "no")

FailureAlert(kind) == IF kind = "save" THEN "Could not save." ELSE "Could not clear today."

\* C1: a save whose write succeeded leaves an in-memory collection that maps
\* its key to its entry exactly once, keeps every other key of the collection
\* it started from with its value and adds no other key; its write stores the
\* serialization of that collection, which is still the stored text when the
\* save ends unless another store operation was under way.
C1_UpsertContract ==
    [][/\ \A i \in 1..Len(ops') :
            (WriteSucceeds(i) /\ ops'[i].kind = "save") =>
                store' = JSONstringify(SpreadSet(ops'[i].snapshot, ops'[i].key, ops'[i].entry))
       /\ (OpCompletes /\ last'.kind = "save" /\ last'.op.wrote = "ok") =>
            LET op == last'.op
            IN /\ GetKey(entries', op.key) = op.entry
               /\ Occurrences(entries', op.key) = 1
               /\ \A k \in KeySet(op.snapshot) \ {op.key} :
                    GetKey(entries', k) = GetKey(op.snapshot, k)
               /\ KeySet(entries') = KeySet(op.snapshot) \cup {op.key}
               /\ (op.alone => store' = JSONstringify(entries'))]_vars

\* a save that ran alone has replaced the value of a key the collection
\* already held, next to another key, and its text is what is stored
C1_Witness ==
    /\ last.kind = "save"
    /\ last.op.wrote = "ok"
    /\ last.op.alone
    /\ HasKey(last.op.snapshot, last.op.key)
    /\ GetKey(last.op.snapshot, last.op.key) # last.op.entry
    /\ Cardinality(KeySet(entries)) >= 2
    /\ entries = last.op.updated
    /\ store = JSONstringify(entries)

\* C2: a confirmed clear whose write succeeded leaves an in-memory collection
\* without its key, in which every other key of the collection it started
\* from keeps its value; its write stores the serialization of that
\* collection, which is still the stored text when the clear ends unless
\* another store operation was under way; clearing a key the collection does
\* not hold leaves a collection equal to it.
C2_RemoveContract ==
    [][/\ \A i \in 1..Len(ops') :
            (WriteSucceeds(i) /\ ops'[i].kind = "clear") =>
                /\ store'.k = "json"
                /\ KeySet(store'.doc) = KeySet(ops'[i].snapshot) \ {ops'[i].key}
                /\ \A k \in KeySet(store'.doc) :
                     GetKey(store'.doc, k) = ToJSON(GetKey(ops'[i].snapshot, k))
       /\ (OpCompletes /\ last'.kind = "clear" /\ last'.op.wrote = "ok") =>
            LET op == last'.op
            IN /\ ~HasKey(entries', op.key)
               /\ \A k \in KeySet(op.snapshot) \ {op.key} :
                    GetKey(entries', k) = GetKey(op.snapshot, k)
               /\ KeySet(entries') = KeySet(op.snapshot) \ {op.key}
               /\ (op.alone => store' = JSONstringify(entries'))
               /\ (op.alone => StructEq(op.snapshot, entries))
               /\ (~HasKey(op.snapshot, op.key) => StructEq(entries', op.snapshot))]_vars

\* a clear that ran alone has removed a key the collection held and has left
\* another key
C2_Witness ==
    /\ last.kind = "clear"
    /\ last.op.wrote = "ok"
    /\ last.op.alone
    /\ HasKey(last.op.snapshot, last.op.key)
    /\ entries = last.op.updated
    /\ Cardinality(KeySet(entries)) >= 1
    /\ store = JSONstringify(entries)

WriteFails ==
    /\ Len(ops') >= Len(ops)
    /\ \E i \in 1..Len(ops') :
         ops'[i].wrote = "failed" /\ (i > Len(ops) \/ ops[i].wrote # "failed")

C4_FailedWriteIsSignalled ==
    [][(OpCompletes /\ last'.op.wrote = "failed") => alert' = FailureAlert(last'.kind)]_vars

\* C5: starting from an empty store, after saves (and clears) that ran one
\* after the other with no failed write, a load from the same backend yields a
\* collection equal to the in-memory one.
C5_RoundTrip ==
    (initialStore = NoItem /\ ~disturbed /\ ~Busy) =>
        StructEq(loadEntriesResult(StorageGetItem(backend, store, FALSE)).entries, entries)

\* two keys have been saved one after the other into an empty store
C5_Witness ==
    /\ initialStore = NoItem
    /\ ~disturbed
    /\ ~Busy
    /\ last.kind = "save"
    /\ Cardinality(KeySet(entries)) >= 2
    /\ loadEntriesResult(StorageGetItem(backend, store, FALSE)).entries = entries

\* C6: when the stored text is not JSON, the load yields the empty
\* collection, no exception leaves it, loading becomes false and the stored
\* text is untouched.
C6_InvalidJsonLoadsEmpty ==
    [][(LoadCompletes /\ loadOp.got.ok /\ loadOp.got.raw = InvalidText) =>
        /\ entries' = EmptyColl
        /\ ~uncaught'
        /\ ~loading'
        /\ alert' = alert
        /\ store' = store
        /\ store = initialStore]_vars

\* the load of a text that is not JSON has completed
C6_Witness ==
    /\ last.kind = "load"
    /\ last.got.ok
    /\ last.got.raw = InvalidText
    /\ store = InvalidText
    /\ entries = EmptyColl
    /\ ~loading

\* C7: when the stored text is JSON of anything but an object of entries (a
\* number, a string, a boolean, null or an array), the load yields the empty
\* collection.
C7_NonObjectLoadsEmpty ==
    [][(LoadCompletes /\ loadOp.got.ok /\ loadOp.got.raw.k = "json"
            /\ loadOp.got.raw.doc.t # "collection") =>
        entries' = EmptyColl]_vars

\* C8: when the read fails or nothing is stored, the load yields the empty
\* collection, shows nothing to the user, lets no exception out and ends.
C8_FailedReadLoadsEmpty ==
    [][(LoadCompletes /\ (~loadOp.got.ok \/ loadOp.got.raw = NoItem)) =>
        /\ entries' = EmptyColl
        /\ alert' = alert
        /\ ~uncaught'
        /\ ~loading']_vars

\* a load whose read was rejected has completed while data is stored
C8_Witness ==
    /\ last.kind = "load"
    /\ ~last.got.ok
    /\ store # NoItem
    /\ nOps = 0
    /\ entries = EmptyColl
    /\ ~loading
    /\ "Failed to load entries" \in warnings

\* C9: no exception leaves load, save or clear: a load ends with loading
\* false, a save or clear ends with the new collection in memory or with the
\* failure notification.
C9_NoUncaughtException ==
    [][/\ ~uncaught'
       /\ LoadCompletes => ~loading'
       /\ (OpCompletes /\ last'.op.phase = "resolved") => entries' = last'.op.updated
       /\ (OpCompletes /\ last'.op.phase = "rejected") => alert' = FailureAlert(last'.kind)]_vars

\* a clear whose write was rejected has ended with its notification
C9_Witness ==
    /\ last.kind = "clear"
    /\ last.op.phase = "rejected"
    /\ alert = "Could not clear today."
    /\ ~uncaught

\* the keys shown by the history list, as a set
ShownKeys == {view.historyArray[i].key : i \in 1..Len(view.historyArray)}

\* C10: the history list holds min(7, number of keys) items, in strictly
\* descending order of their keys, and they are the greatest keys of the
\* collection; it is empty for the empty collection.
C10_RecentHistory ==
    view.rendered =>
        LET h == view.historyArray
        IN /\ Len(h) = Min(HistoryLimit, Cardinality(KeySet(entries)))
           /\ \A i, j \in 1..Len(h) : i < j => localeCompare(h[i].key, h[j].key) > 0
           /\ ShownKeys \subseteq KeySet(entries)
           /\ \A k \in KeySet(entries) \ ShownKeys :
                \A s \in ShownKeys : localeCompare(k, s) < 0
           /\ \A i \in 1..Len(h) : h[i].value = GetKey(entries, h[i].key)
           /\ (KeySet(entries) = {} => h = <<>>)

\* the list has been cut to seven items of a larger collection
C10_Witness ==
    /\ view.rendered
    /\ Cardinality(KeySet(entries)) > HistoryLimit
    /\ Len(view.historyArray) = HistoryLimit
    /\ ObjectKeys(entries)[1] \notin ShownKeys

\* this step ends a save whose write succeeded, and the operation that ended
\* before it was a save whose write succeeded too
SaveAfterSave ==
    /\ OpCompletes
    /\ last'.kind = "save" /\ last'.op.wrote = "ok"
    /\ last.kind = "save" /\ last.op.wrote = "ok"

\* C16: a save of entry e under key k made from the collection that a save of
\* the same e under the same k has left builds that same collection and the
\* same text: after the second save the in-memory collection and the stored
\* text are what they were after the first.
C16_UpsertIdempotent ==
    [][(SaveAfterSave /\ last'.op.key = last.op.key /\ last'.op.entry = last.op.entry
            /\ last'.op.snapshot = last.op.updated) =>
        /\ last'.op.updated = last.op.updated
        /\ last'.op.text = last.op.text
        /\ entries' = last.op.updated
        /\ (last'.op.alone => store' = last.op.text)]_vars

\* the same entry has been saved twice in a row under a key that the first
\* save added to an empty store
C16_Witness ==
    /\ initialStore = NoItem
    /\ ~disturbed
    /\ nOps = 2
    /\ ops = <<>>
    /\ last.kind = "save"
    /\ last.op.wrote = "ok"
    /\ last.op.snapshot = last.op.updated
    /\ GetKey(last.op.snapshot, last.op.key) = last.op.entry
    /\ entries = last.op.updated
    /\ store = last.op.text

\* C17: nothing keeps two saves apart.  When a save ends after another save
\* that was started from the same snapshot of the collection and was still
\* under way, both writes having succeeded, each write stored the text of the
\* whole collection built from that snapshot, the in-memory collection is the
\* one built by the save that ends last, the change of the other save is not
\* in it, and no failure is shown or logged.
C17_LostUpdate ==
    [][/\ \A i \in 1..Len(ops') :
            (WriteSucceeds(i) /\ ops'[i].kind = "save" /\ ~ops'[i].alone) =>
                store' = JSONstringify(SpreadSet(ops'[i].snapshot, ops'[i].key, ops'[i].entry))
       /\ (SaveAfterSave /\ last'.op.snapshot = last.op.snapshot /\ entries = last.op.updated
                /\ last.op.updated # last.op.snapshot) =>
            /\ ~last'.op.alone
            /\ entries' = SpreadSet(last.op.snapshot, last'.op.key, last'.op.entry)
            /\ (last.op.key # last'.op.key =>
                    GetKey(entries', last.op.key) = GetKey(last.op.snapshot, last.op.key))
            /\ (last.op.key = last'.op.key => GetKey(entries', last.op.key) = last'.op.entry)
            /\ alert' = (IF version = "manual" THEN "Saved" ELSE alert)
            /\ warnings' = warnings
            /\ ~uncaught']_vars

\* two saves under different keys were started from the empty collection and
\* both have ended: the collection holds the key of the save that ended last
\* only, and the stored text holds the key of the other save only
C17_Witness ==
    /\ initialStore = NoItem
    /\ ops = <<>>
    /\ last.kind = "save"
    /\ last.op.wrote = "ok"
    /\ ~last.op.alone
    /\ last.op.snapshot = EmptyColl
    /\ entries = last.op.updated
    /\ KeySet(entries) = {last.op.key}
    /\ store.k = "json"
    /\ Cardinality(KeySet(store.doc)) = 1
    /\ KeySet(store.doc) # KeySet(entries)
    /\ alert = "Saved"
    /\ warnings = {}

\* the messages the localStorage wrapper logs
LocalStorageWarnings == {"localStorage.getItem failed", "localStorage.setItem failed"}

\* what the reads and writes made so far show of the wrapper that served
\* them: the localStorage wrapper never rejects and settles within the call,
\* AsyncStorage logs nothing itself, the in-memory map starts empty and
\* neither fails nor logs
ServedBy(b) ==
    /\ b \in {"web", "memory"} =>
          /\ loadOp.got.ok
          /\ \A i \in 1..Len(ops) : ops[i].phase = "resolved"
          /\ last.got.ok
          /\ last.op.kind # "none" => last.op.phase = "resolved"
    /\ b \in {"native", "memory"} => warnings \cap LocalStorageWarnings = {}
    /\ b = "memory" =>
          /\ initialStore = NoItem
          /\ \A i \in 1..Len(ops) : ops[i].wrote # "failed"
          /\ last.op.kind # "none" => last.op.wrote = "ok"

\* C18: the backend is the first available of browser local storage, the
\* native store (when the package resolves and has getItem) and the
\* in-memory map; every load, save and clear is served by it, and neither the
\* choice nor what it was made from changes while the process runs.
C18_BackendChosenOnce ==
    /\ [](/\ platform.localStorage => backend = "web"
          /\ (~platform.localStorage /\ platform.asyncStorage = "ok") => backend = "native"
          /\ (~platform.localStorage /\ platform.asyncStorage # "ok") => backend = "memory"
          /\ ServedBy(backend))
    /\ [][backend' = backend /\ platform' = platform]_vars

\* where both local storage and the native store are available, a load and
\* two saves have been served by local storage
C18_Witness ==
    /\ platform.localStorage
    /\ platform.asyncStorage = "ok"
    /\ backend = "web"
    /\ ~loading
    /\ nOps = 2
    /\ last.kind = "save"
    /\ last.op.wrote = "ok"
    /\ store = last.op.text

\* C20: when the backend answers every pending read, the load started at
\* startup ends and loading becomes false, whatever was stored and whether
\* or not the read failed; once false, loading never becomes true again.
C20_LoadingEnds ==
    /\ <>(~loading)
    /\ [][~loading => ~loading']_vars

\* the load has ended, after a failed read, later than two actions of the
\* user, and loading is false
C20_Witness ==
    /\ ~loading
    /\ loadOp = LoadDone
    /\ last.kind = "load"
    /\ ~last.got.ok
    /\ nOps = 2
    /\ ops = <<>>

\* C22: a save under key k keeps every other date of the stored text: each
\* key other than k that the stored collection held before the write of the
\* save is still there after it with the same value, also for a save made
\* before the load has ended or after a failed read.
C22_SaveKeepsOtherDates ==
    [][\A i \in 1..Len(ops') :
        (WriteSucceeds(i) /\ ops'[i].kind = "save" /\ store.k = "json") =>
            \A k \in KeySet(store.doc) \ {ops'[i].key} :
                /\ store'.k = "json"
                /\ HasKey(store'.doc, k)
                /\ GetKey(store'.doc, k) = GetKey(store.doc, k)]_vars

\* the messages and notices that follow a failed write
WriteFailureWarnings == {"localStorage.setItem failed", "Save failed", "Clear failed"}

\* C23: once every save and clear has ended and no write has failed, the
\* stored text is the serialization of the in-memory collection, whatever
\* the order of the writes and of the resumptions of overlapping saves.
C23_BlobMatchesMemory ==
    (ops = <<>> /\ loadOp = LoadDone /\ ~dialog.open /\ last.kind \in {"save", "clear"}
        /\ warnings \cap WriteFailureWarnings = {}) =>
            store = JSONstringify(entries)

\* C24: in the auto-save draft, while the form holds the entry of the newest
\* save under way for the date shown, the end of an older save of that date
\* leaves the form as it is.
C24_FormKeepsNewestEdit ==
    [][(/\ version = "auto"
        /\ OpCompletes
        /\ ops' # <<>>
        /\ ops'[Len(ops')] = ops[Len(ops)]
        /\ ops[Len(ops)].kind = "save"
        /\ ops[Len(ops)].key = todayKey
        /\ current = ops[Len(ops)].entry
        /\ last'.kind = "save"
        /\ last'.op.key = todayKey) =>
            current' = current]_vars

\* the dates of view d, as a set
DateSet(d) == {d[i] : i \in 1..Len(d)}

\* d holds at most n keys of the collection, in strictly ascending order, and
\* they are its greatest keys
IsDateWindow(d, n) ==
    /\ Len(d) <= n
    /\ \A i, j \in 1..Len(d) : i < j => localeCompare(d[i], d[j]) < 0
    /\ DateSet(d) \subseteq KeySet(entries)
    /\ \A k \in KeySet(entries) \ DateSet(d) : \A s \in DateSet(d) : localeCompare(k, s) < 0
    /\ (KeySet(entries) = {} => d = <<>>)

NonEmptyString(v) == v.t = "string" /\ v.s # ""

\* the entry stored under `date`, an absent or null one taken as {}
StoredEntry(date) == OrEmptyObject(GetKey(entries, date))

\* the number of non-empty strings of the gratitude list of entry e
NonEmptyGratitude(e) ==
    LET g == ItemsOrNone(Prop(Prop(e, "morning"), "gratitude"))
    IN Cardinality({i \in 1..Len(g) : NonEmptyString(g[i])})

\* the number of non-empty fields among night.wentWell, handled, improve of e
NonEmptyNight(e) ==
    Cardinality({f \in {"wentWell", "handled", "improve"} : NonEmptyString(Prop(Prop(e, "night"), f))})

\* the number of true values of the caught list of entry e
TrueCaught(e) ==
    LET c == ItemsOrNone(Prop(Prop(e, "midday"), "caught"))
    IN Cardinality({i \in 1..Len(c) : c[i] = Bool(TRUE)})

\* the series were computed without a TypeError
ChartsReturned == view.charts.rendered /\ ~view.charts.consistency.threw /\ ~view.charts.combined.threw

\* C12: every percentage of the completion series and every gratitudePercent
\* of the complaint-and-gratitude series is an integer in [0,100], whatever
\* the stored entries hold.
C12_PercentagesInRange ==
    ChartsReturned =>
        /\ \A i \in DOMAIN view.charts.consistency.data : view.charts.consistency.data[i] \in 0..100
        /\ \A i \in DOMAIN view.charts.combined.gratitudeData :
             view.charts.combined.gratitudeData[i] \in 0..100

\* C13: for every date of the window the completion series reports
\* round(100 * filledCount / 6), filledCount being the number of non-empty
\* gratitude strings plus the number of non-empty night fields, a missing
\* morning or night counting 0.
C13_CompletionPercent ==
    ChartsReturned =>
        LET c == view.charts.consistency
        IN \A i \in 1..Len(c.fullLabels) :
             c.data[i] = MathRound(100 * (NonEmptyGratitude(StoredEntry(c.fullLabels[i]))
                                          + NonEmptyNight(StoredEntry(c.fullLabels[i]))), 6)

\* the first item of the caught list of entry e is true
FirstCaught(e) ==
    LET c == ItemsOrNone(Prop(Prop(e, "midday"), "caught"))
    IN Len(c) >= 1 /\ c[1].t # "hole" /\ Truthy(c[1])

\* C14: for every date of the window the complaint-and-gratitude series
\* reports complaintPercent 100 when midday.caught[0] is true and 0 in every
\* other case (midday absent, caught absent or not a list, caught[0] false or
\* missing); the other two flags have no influence.
C14_ComplaintPercent ==
    ChartsReturned =>
        LET c == view.charts.combined
        IN \A i \in 1..Len(c.fullLabels) :
             /\ c.complaintData[i] \in {0, 100}
             /\ c.complaintData[i] = 100 <=> FirstCaught(StoredEntry(c.fullLabels[i]))

\* the series of an entry whose second and third flags are set, the first not
C14_Witness ==
    /\ ChartsReturned
    /\ view.charts.n > 0
    /\ view.charts.combined.complaintData = <<0>>
    /\ TrueCaught(StoredEntry(getTodayKey(Today))) = 2

\* C15: for every item of the history list the three counts are the number
\* of non-empty gratitude strings, of true values in midday.caught and of
\* non-empty night fields; each lies in 0..3, and a missing morning, midday
\* or night gives 0.
C15_HistoryCounts ==
    view.rendered =>
        \A i \in 1..Len(view.summaries) :
            LET s == view.summaries[i]
                e == StoredEntry(s.key)
            IN /\ s.morningCount = NonEmptyGratitude(e)
               /\ s.caughtCount = TrueCaught(e)
               /\ s.nightFilled = NonEmptyNight(e)
               /\ s.morningCount \in 0..3
               /\ s.caughtCount \in 0..3
               /\ s.nightFilled \in 0..3

C25_SameGratitudeCount ==
    (view.rendered /\ ChartsReturned) =>
        \A i \in 1..Len(view.summaries), j \in 1..Len(view.charts.combined.fullLabels) :
            view.charts.combined.fullLabels[j] = view.summaries[i].key =>
                view.charts.combined.gratitudeData[j]
                    = MathRound(100 * view.summaries[i].morningCount, 3)

\* the sequence s from its last item to its first
Reverse(s) == [i \in 1..Len(s) |-> s[Len(s) + 1 - i]]

\* the dates of the history list, in its order
HistoryDates == [i \in 1..Len(view.historyArray) |-> view.historyArray[i].key]

\* C26: the dates of the completion series are those of the history list in
\* reverse order, and the complaint-and-gratitude series asked for the same
\* window of 7 has the dates of the completion series.
C26_SameDates ==
    (view.rendered /\ ChartsReturned) =>
        /\ view.charts.consistency.fullLabels = Reverse(HistoryDates)
        /\ view.charts.n = DefaultWindow =>
              view.charts.combined.fullLabels = view.charts.consistency.fullLabels

\* both views were computed, with a window of 7, from more than 7 dates that
\* were not inserted in sorted order
C26_Witness ==
    /\ view.rendered
    /\ ChartsReturned
    /\ view.charts.n = DefaultWindow
    /\ Cardinality(KeySet(entries)) > DefaultWindow
    /\ Len(HistoryDates) = HistoryLimit
    /\ Len(view.charts.consistency.fullLabels) = DefaultWindow
    /\ ObjectKeys(entries) # SortKeys("chart", ObjectKeys(entries))
    /\ ObjectKeys(entries) # SortKeys("history", ObjectKeys(entries))
    /\ view.charts.consistency.fullLabels[1] = HistoryDates[HistoryLimit]

\* the Cancel button of a confirmation, the first time it is pressed
CancelStep == dialog.open /\ ~dialog'.open /\ last'.kind = "cancel" /\ last.kind # "cancel"

\* C27: Clear followed by Cancel changes nothing: the collection, the blob
\* and the entry in the form are what they were when Clear was pressed, and
\* no write is issued.
C27_CancelChangesNothing ==
    [][(CancelStep /\ dialog.alone) =>
          /\ entries' = dialog.entries
          /\ current' = dialog.form
          /\ store' = store
          /\ ops' = ops]_vars

\* a step of handleDateSelect in the auto-save draft
SelectStep == version = "auto" /\ nOps' = nOps + 1 /\ ops' = ops /\ dialog' = dialog

\* the entry of date d in the collection, or the empty entry
ShownFor(ents, d) == IF HasKey(ents, d) THEN GetKey(ents, d) ELSE getEmptyEntry

\* the collections a and b hold the same entries apart from date d
SameApartFrom(a, b, d) ==
    \A k \in (KeySet(a) \cup KeySet(b)) \ {d} :
        HasKey(a, k) /\ HasKey(b, k) /\ GetKey(a, k) = GetKey(b, k)

\* C29: selecting date d shows the entry of d or the empty entry, and every
\* save or confirmed clear started afterwards addresses d: the collection it
\* writes differs from the one it started from at key d only.
C29_SelectedDateIsAddressed ==
    [][/\ SelectStep =>
            /\ selected' \in CalendarDays
            /\ current' = ShownFor(entries, selected')
       /\ (selected # NoDate /\ Len(ops') > Len(ops)) =>
            LET op == ops'[Len(ops')]
            IN /\ selected' = selected
               /\ op.key = selected
               /\ SameApartFrom(op.updated, op.snapshot, selected)
               /\ IF op.kind = "save"
                  THEN HasKey(op.updated, selected) /\ GetKey(op.updated, selected) = op.entry
                  ELSE ~HasKey(op.updated, selected)]_vars

\* a day other than the one shown at the start was selected, an edit was
\* saved under it, and the entry of the day shown at the start is still there
C29_Witness ==
    /\ version = "auto"
    /\ selected = getTodayKey(Tomorrow)
    /\ last.kind = "save"
    /\ last.op.key = selected
    /\ HasKey(entries, selected)
    /\ HasKey(entries, getTodayKey(Today))
    /\ store = JSONstringify(entries)

\* v is a list of exactly three strings
ThreeStrings(v) ==
    v.t = "array" /\ Len(v.items) = 3 /\ \A i \in 1..3 : v.items[i].t = "string"

\* v is a list of exactly three booleans
ThreeBooleans(v) ==
    v.t = "array" /\ Len(v.items) = 3 /\ \A i \in 1..3 : v.items[i].t = "boolean"

\* C21: from the empty entry or an entry with absent sub-fields, every edit
\* completes without an exception; a gratitude edit leaves morning.gratitude
\* a list of exactly 3 strings, a toggle leaves midday.caught a list of
\* exactly 3 booleans.
C21_EditsCompleteShape ==
    [][(nOps' = nOps + 1) =>
          /\ ~uncaught'
          /\ current'.t = "object"
          /\ (\E i \in FormIndexes, text \in EditTexts : current' = updateGratitude(current, i, text)) =>
                ThreeStrings(Prop(Prop(current', "morning"), "gratitude"))
          /\ (\E i \in FormIndexes : current' = toggleMidC(current, i)) =>
                ThreeBooleans(Prop(Prop(current', "midday"), "caught"))]_vars

\* the saved entry had neither morning nor midday; after a gratitude edit and
\* a toggle the form holds both lists, complete
C21_Witness ==
    /\ nOps >= 2
    /\ ~uncaught
    /\ initialStore # NoItem
    /\ initialStore.k = "json"
    /\ HasKey(initialStore.doc, todayKey)
    /\ Prop(GetKey(initialStore.doc, todayKey), "morning").t = "undefined"
    /\ Prop(GetKey(initialStore.doc, todayKey), "midday").t = "undefined"
    /\ ThreeStrings(Prop(Prop(current, "morning"), "gratitude"))
    /\ ThreeBooleans(Prop(Prop(current, "midday"), "caught"))
    /\ Prop(Prop(current, "midday"), "caught").items[3].b

C30_PressTogglesSelection ==
    \A d \in HistoryDays :
        LET sel == view.selectedDate
            after == onPressDay(entries, sel, d)
        IN /\ (d \in getMarkedDates(entries)) = HasKey(entries, d)
           /\ isMarked(entries, d) = HasKey(entries, d)
           /\ (~HasKey(entries, d) /\ d # sel) => after = sel
           /\ (HasKey(entries, d) /\ d # sel) => after = d
           /\ d = sel => after = NoDate

====
